---- MODULE Spec2Model ----
(***************************************************************************)
(* A model of pickemall: the JPEG marker scanner (readJPEGDimensions), the *)
(* crop identity hasher (Crop.String / Crop.ID) and the operation model    *)
(* (Operation.UnmarshalJSON, the JSON encoding used by printJSONL, and the  *)
(* /api/save decode of a batch), and the batch executor                    *)
(* (OperationExecutor.Exec with its worker pool, executeCrop, executePick   *)
(* and the ImagingCropper codec).                                          *)
(*                                                                         *)
(* Each component has its own specification over the shared variables:     *)
(*   SpecScan  - readJPEGDimensions run on one byte stream                 *)
(*   SpecCrop  - Crop.ID computed for two rectangles                       *)
(*   SpecOp    - encode / decode of operations and the save request        *)
(*   SpecExec  - OperationExecutor.Exec run on one batch                   *)
(***************************************************************************)
EXTENDS Integers, Sequences, FiniteSets, TLC

VARIABLES
    file,       \* scanner: the bytes of the opened file
    pos,        \* scanner: the file offset (bytes consumed or skipped)
    buf,        \* scanner: var buf [2]byte
    pc,         \* scanner: position in readJPEGDimensions
    res,        \* scanner: what readJPEGDimensions returned
    reads,      \* scanner: number of file.Read calls made so far
    c1, c2,     \* hasher: two crop rectangles
    id1, id2,   \* hasher: Crop.ID() of c1, c2 (NoID before the call)
    data,       \* operation model: the JSON value handed to the decoder
    src,        \* operation model: the Operation that was encoded (zero if none)
    op,         \* operation model: the Operation decoded into
    derr,       \* operation model: the error of the decode
    opc,        \* operation model: position of the round trip / save handler
    batch,      \* operation model: the operations handed to OnSave
    ops,        \* executor: the batch passed to Exec
    st,         \* executor: per operation, where its execution stands
    runs,       \* executor: per operation, how many times it was started
    oerr,       \* executor: per operation, the error it returned ("" for nil)
    wbuf,       \* executor: per operation, the bytes it holds for writing
    files,      \* executor: the regular files of the file system, by path
    dirs,       \* executor: the directories of the file system
    epc,        \* executor: position in Exec
    nexti,      \* executor: index of the next operation of the range loop
    errs,       \* executor: the operations whose error the pool collected
    eret,       \* executor: what Exec returned
    mkdirFails, \* executor: whether os.MkdirAll of the output directory fails
    cancelled,  \* executor: whether the ctx passed to Exec is cancelled
    csrc,       \* codec: the bytes ImagingCropper.Crop reads from r
    creq,       \* codec: the rectangle it is asked to crop
    cres,       \* codec: its error and the bytes it wrote to w
    cpc,        \* codec: position of the call
    wdir,       \* walk: the image files under the root, with their bytes
    wfiles,     \* walk: var files []FileInfo of walkImages
    wseen,      \* walk: what readJPEGDimensions returned for each file so far
    wi,         \* walk: index of the dimension loop
    wpc,        \* walk: position in walkImages
    wret,       \* walk: what walkImages returned
    cmd,        \* serve: the flags of serveCmd: Once and JSON
    spc,        \* serve: position of the /api/save handler
    saves,      \* serve: number of saves whose OnSave has returned
    calls,      \* serve: number of calls of WebApp.Shutdown so far
    shutdownOnce, \* serve: WebApp.shutdownOnce has run its function
    shutdownCh, \* serve: WebApp.shutdownCh: open, closed, or closed twice
    gpc,        \* serve: position of the goroutine that WebApp.Run starts
    befores,    \* serve: number of calls of Config.OnBeforeShutdown
    shutdowns   \* serve: number of calls of webapp.ShutdownWithTimeout

scanVars == <<file, pos, buf, pc, res, reads>>
cropVars == <<c1, c2, id1, id2>>
opVars   == <<data, src, op, derr, opc, batch>>
execVars == <<ops, st, runs, oerr, wbuf, files, dirs, epc, nexti, errs, eret,
              mkdirFails, cancelled>>
codecVars == <<csrc, creq, cres, cpc>>
walkVars == <<wdir, wfiles, wseen, wi, wpc, wret>>
serveVars == <<cmd, spc, saves, calls, shutdownOnce, shutdownCh, gpc, befores, shutdowns>>
vars     == <<file, pos, buf, pc, res, reads, c1, c2, id1, id2,
              data, src, op, derr, opc, batch,
              ops, st, runs, oerr, wbuf, files, dirs, epc, nexti, errs, eret,
              mkdirFails, cancelled,
              csrc, creq, cres, cpc,
              wdir, wfiles, wseen, wi, wpc, wret,
              cmd, spc, saves, calls, shutdownOnce, shutdownCh, gpc, befores, shutdowns>>

(***************************************************************************)
(* Bounds of the model.                                                    *)
(***************************************************************************)
MaxSegs == 2
MaxSegLen == 7
MaxCut == 2
MaxOps == 2

(***************************************************************************)
(* readJPEGDimensions                                                      *)
(***************************************************************************)
Min(a, b) == IF a < b THEN a ELSE b

\* binary.BigEndian.Uint16
BigEndianUint16_LittleEndian(hi, lo) == lo * 256 + hi
BigEndianUint16(hi, lo) == hi * 256 + lo

\* buf[0] != 0xFF || buf[1] != 0xD8 is the failure; this is its negation
IsSOI_And(b) == b[1] = 255 \/ b[2] = 216
IsSOI(b) == b[1] = 255 /\ b[2] = 216

\* buf[1] >= 0xC0 && buf[1] <= 0xC3
IsSOF_NoUpperBound(t) == t >= 192
IsSOF(t) == t >= 192 /\ t <= 195

\* length-2 on a uint16: wraps modulo 2^16
SegSize(length) == (length - 2) % 65536

\* file.Read(p) with len(p) = n on a regular file at offset pos: the number of
\* bytes read; 0 with n > 0 is io.EOF, 0 with n = 0 is (0, nil)
ReadCount(n) ==
    IF pos >= Len(file) THEN 0 ELSE Min(n, Len(file) - pos)

\* the byte at offset o of the file
ByteAt(o) == file[o + 1]

\* buf after file.Read(buf[:]): a short read leaves the tail of buf as it was
BufAfterRead2 ==
    IF ReadCount(2) = 2 THEN <<ByteAt(pos), ByteAt(pos + 1)>>
    ELSE IF ReadCount(2) = 1 THEN <<ByteAt(pos), buf[2]>>
    ELSE buf

\* segment[i] after file.Read(segment) placed n bytes in the zeroed slice
SegmentByte(i, n) == IF i < n THEN ByteAt(pos + i) ELSE 0

Ok(w, h)   == [kind |-> "ok", width |-> w, height |-> h, msg |-> ""]
Err(m)     == [kind |-> "error", width |-> 0, height |-> 0, msg |-> m]
Panic(m)   == [kind |-> "panic", width |-> 0, height |-> 0, msg |-> m]
NoResult   == [kind |-> "none", width |-> 0, height |-> 0, msg |-> ""]

Return(r) == /\ res' = r
             /\ pc' = "done"

\* lines 100-107: read the SOI marker
ReadSOI ==
    /\ pc = "soi"
    /\ reads' = reads + 1
    /\ IF ReadCount(2) = 0
         THEN /\ Return(Err("failed to read SOI marker"))
              /\ UNCHANGED <<pos, buf>>
         ELSE /\ buf' = BufAfterRead2
              /\ pos' = pos + ReadCount(2)
              /\ IF ~IsSOI(buf')
                   THEN Return(Err("not a valid JPEG file"))
                   ELSE /\ pc' = "marker"
                        /\ UNCHANGED res
    /\ UNCHANGED file

\* lines 110-117: read the next marker
ReadMarker ==
    /\ pc = "marker"
    /\ reads' = reads + 1
    /\ IF ReadCount(2) = 0
         THEN /\ Return(Err("EOF"))
              /\ UNCHANGED <<pos, buf>>
         ELSE /\ buf' = BufAfterRead2
              /\ pos' = pos + ReadCount(2)
              /\ IF buf'[1] # 255
                   THEN Return(Err("invalid JPEG format"))
                   ELSE /\ pc' = "type"
                        /\ UNCHANGED res
    /\ UNCHANGED file

\* lines 119-125: for buf[1] == 0xFF { file.Read(buf[1:2]) }
SkipPadding ==
    /\ pc = "type"
    /\ buf[2] = 255
    /\ reads' = reads + 1
    /\ IF ReadCount(1) = 0
         THEN /\ Return(Err("EOF"))
              /\ UNCHANGED <<pos, buf>>
         ELSE /\ buf' = <<buf[1], ByteAt(pos)>>
              /\ pos' = pos + 1
              /\ UNCHANGED <<pc, res>>
    /\ UNCHANGED file

\* lines 128-134: a SOF marker; read the length of the segment
ReadSOFLength ==
    /\ pc = "type"
    /\ buf[2] # 255
    /\ IsSOF(buf[2])
    /\ reads' = reads + 1
    /\ IF ReadCount(2) = 0
         THEN /\ Return(Err("EOF"))
              /\ UNCHANGED <<pos, buf>>
         ELSE /\ buf' = BufAfterRead2
              /\ pos' = pos + ReadCount(2)
              /\ pc' = "sofdata"
              /\ UNCHANGED res
    /\ UNCHANGED file

\* lines 136-146: read the segment data and extract height and width
ReadSOFSegment ==
    /\ pc = "sofdata"
    /\ reads' = reads + 1
    /\ LET size == SegSize(BigEndianUint16(buf[1], buf[2]))
           n    == ReadCount(size)
       IN  IF size > 0 /\ n = 0
             THEN /\ Return(Err("EOF"))
                  /\ UNCHANGED pos
             ELSE /\ pos' = pos + n
                  /\ IF size < 3
                       THEN Return(Panic("slice bounds out of range [:3]"))
                       ELSE IF size < 5
                       THEN Return(Panic("slice bounds out of range [:5]"))
                       ELSE Return(Ok(
                              BigEndianUint16(SegmentByte(3, n), SegmentByte(4, n)),
                              BigEndianUint16(SegmentByte(1, n), SegmentByte(2, n))))
    /\ UNCHANGED <<file, buf>>

\* lines 148-153: any other marker; read the length of the segment
ReadSegLength ==
    /\ pc = "type"
    /\ buf[2] # 255
    /\ ~IsSOF(buf[2])
    /\ reads' = reads + 1
    /\ IF ReadCount(2) = 0
         THEN /\ Return(Err("EOF"))
              /\ UNCHANGED <<pos, buf>>
         ELSE /\ buf' = BufAfterRead2
              /\ pos' = pos + ReadCount(2)
              /\ pc' = "skip"
              /\ UNCHANGED res
    /\ UNCHANGED file

\* lines 155-159: file.Seek(int64(length-2), os.SEEK_CUR); a seek past the
\* end of a regular file succeeds
SkipSegment ==
    /\ pc = "skip"
    /\ pos' = pos + SegSize(BigEndianUint16(buf[1], buf[2]))
    /\ pc' = "marker"
    /\ UNCHANGED <<file, buf, res, reads>>

(***************************************************************************)
(* The byte streams the scanner is run on: two leading bytes, then up to   *)
(* MaxSegs pieces (a segment with its declared payload, or one FF fill     *)
(* byte), with up to MaxCut bytes cut off the end.                         *)
(***************************************************************************)
Heads == {<<255, 216>>, <<255, 217>>, <<0, 216>>}

Payload(pat, n) == [i \in 1..n |-> pat * 16 + (i - 1)]

Seg(t, len, pat) ==
    <<255, t, len \div 256, len % 256>> \o Payload(pat, IF len >= 2 THEN len - 2 ELSE 0)

Pieces ==
    {Seg(192, len, 1) : len \in 0..MaxSegLen}
        \cup {Seg(195, len, 2) : len \in {MaxSegLen}}
        \cup {Seg(196, len, 3) : len \in {0, 1, 2, 4}}
        \cup {Seg(255, 2, 3)}
        \cup {<<255>>}

RECURSIVE Concat(_)
Concat(ss) == IF ss = <<>> THEN <<>> ELSE Head(ss) \o Concat(Tail(ss))

CutTail(s, k) == SubSeq(s, 1, IF Len(s) >= k THEN Len(s) - k ELSE 0)

Streams ==
    {CutTail(h \o Concat(ss), k) :
        h \in Heads,
        ss \in UNION {[1..n -> Pieces] : n \in 0..MaxSegs},
        k \in 0..MaxCut}

ScanIdle ==
    /\ file = <<>>
    /\ pos = 0
    /\ buf = <<0, 0>>
    /\ pc = "idle"
    /\ res = NoResult
    /\ reads = 0

\* no identifier computed yet
NoID == ""

ZeroCrop == [X |-> 0, Y |-> 0, Width |-> 0, Height |-> 0]

CropIdle ==
    /\ c1 = ZeroCrop
    /\ c2 = ZeroCrop
    /\ id1 = NoID
    /\ id2 = NoID

\* a nil *CropOperation / *PickOperation
NilPtr == [nil |-> TRUE]

\* the zero Operation: neither variant populated
EmptyOperation == [Crop |-> NilPtr, Pick |-> NilPtr]

\* a nil error
NoError == [msg |-> "", arg |-> ""]

\* JSON values
JNull == [j |-> "null"]
JString(s) == [j |-> "string", v |-> s]
JNumber(n) == [j |-> "number", v |-> n]
JObject(fields) == [j |-> "object", v |-> fields]
\* what the lookup of a key gives when the object has no such key
Absent == [j |-> "absent"]

OpIdle ==
    /\ data = JNull
    /\ src = EmptyOperation
    /\ op = EmptyOperation
    /\ derr = NoError
    /\ opc = "idle"
    /\ batch = <<>>

ExecIdle ==
    /\ ops = <<>>
    /\ st = <<>>
    /\ runs = <<>>
    /\ oerr = <<>>
    /\ wbuf = <<>>
    /\ files = <<>>
    /\ dirs = {}
    /\ epc = "idle"
    /\ nexti = 0
    /\ errs = {}
    /\ eret = "none"
    /\ mkdirFails = FALSE
    /\ cancelled = FALSE

CodecIdle ==
    /\ csrc = [img |-> "", r |-> <<0, 0, 0, 0>>]
    /\ creq = ZeroCrop
    /\ cres = [err |-> "", out |-> [img |-> "", r |-> <<0, 0, 0, 0>>]]
    /\ cpc = "idle"

WalkIdle ==
    /\ wdir = <<>>
    /\ wfiles = <<>>
    /\ wseen = <<>>
    /\ wi = 0
    /\ wpc = "idle"
    /\ wret = "none"

ServeIdle ==
    /\ cmd = [Once |-> FALSE, JSON |-> FALSE]
    /\ spc = "idle"
    /\ saves = 0
    /\ calls = 0
    /\ shutdownOnce = FALSE
    /\ shutdownCh = "open"
    /\ gpc = "idle"
    /\ befores = 0
    /\ shutdowns = 0

InitScan ==
    /\ file \in Streams
    /\ pos = 0
    /\ buf = <<0, 0>>
    /\ pc = "soi"
    /\ res = NoResult
    /\ reads = 0
    /\ CropIdle
    /\ OpIdle
    /\ ExecIdle
    /\ CodecIdle
    /\ WalkIdle
    /\ ServeIdle

NextScan ==
    \/ ReadSOI /\ UNCHANGED <<cropVars, opVars, execVars, codecVars, walkVars, serveVars>>
    \/ ReadMarker /\ UNCHANGED <<cropVars, opVars, execVars, codecVars, walkVars, serveVars>>
    \/ SkipPadding /\ UNCHANGED <<cropVars, opVars, execVars, codecVars, walkVars, serveVars>>
    \/ ReadSOFLength /\ UNCHANGED <<cropVars, opVars, execVars, codecVars, walkVars, serveVars>>
    \/ ReadSOFSegment /\ UNCHANGED <<cropVars, opVars, execVars, codecVars, walkVars, serveVars>>
    \/ ReadSegLength /\ UNCHANGED <<cropVars, opVars, execVars, codecVars, walkVars, serveVars>>
    \/ SkipSegment /\ UNCHANGED <<cropVars, opVars, execVars, codecVars, walkVars, serveVars>>

SpecScan == InitScan /\ [][NextScan]_vars

(***************************************************************************)
(* The stream as the claims describe it: a walk over the marker positions  *)
(* of the file, independent of the scanner's buffer and cursor.  It skips  *)
(* every non-SOF segment by its declared length and stops at the first     *)
(* marker of a SOF type, at a byte that is no marker, or at the end.       *)
(*   fill    - FF bytes after the marker's FF are fill, skipped before the *)
(*             type byte; FALSE takes the byte after FF as the type        *)
(*   badlen  - a skipped segment declared a length below 2                 *)
(*   trunc   - a skipped segment's payload was not fully present           *)
(***************************************************************************)
SOFTypes == 192..195

RECURSIVE TypeOffset(_)
TypeOffset(q) ==
    IF q < Len(file) /\ ByteAt(q) = 255 THEN TypeOffset(q + 1) ELSE q

RECURSIVE Walk(_, _, _, _)
Walk(p, fill, badlen, trunc) ==
    IF p + 2 > Len(file)
      THEN [stop |-> "eof", type |-> 0, len |-> 0, at |-> p,
            badlen |-> badlen, trunc |-> trunc]
    ELSE IF ByteAt(p) # 255
      THEN [stop |-> "malformed", type |-> 0, len |-> 0, at |-> p,
            badlen |-> badlen, trunc |-> trunc]
    ELSE LET q == IF fill THEN TypeOffset(p + 1) ELSE p + 1 IN
      IF q >= Len(file)
        THEN [stop |-> "eof", type |-> 0, len |-> 0, at |-> q,
              badlen |-> badlen, trunc |-> trunc]
      ELSE IF q + 3 > Len(file)
        THEN [stop |-> "trunclen", type |-> ByteAt(q), len |-> 0, at |-> q + 1,
              badlen |-> badlen, trunc |-> trunc]
      ELSE LET t == ByteAt(q)
               L == ByteAt(q + 1) * 256 + ByteAt(q + 2)
           IN  IF t \in SOFTypes
                 THEN [stop |-> "sof", type |-> t, len |-> L, at |-> q + 3,
                       badlen |-> badlen, trunc |-> trunc]
                 ELSE Walk(q + 3 + ((L - 2) % 65536), fill,
                           badlen \/ L < 2,
                           trunc \/ (L >= 2 /\ q + 3 + (L - 2) > Len(file)))

StartsWithSOI == Len(file) >= 2 /\ file[1] = 255 /\ file[2] = 216

\* the stream as the scanner's algorithm sees it, and as C1 words it
Seen    == Walk(2, TRUE, FALSE, FALSE)
Literal == Walk(2, FALSE, FALSE, FALSE)

\* the walk stopped at a SOF segment after well-formed segments only
AtCleanSOF(w) == w.stop = "sof" /\ ~w.badlen /\ ~w.trunc

\* bytes of the SOF payload that are in the file
PayloadPresent(w) ==
    IF Len(file) - w.at < w.len - 2 THEN Len(file) - w.at ELSE w.len - 2

\* a SOF segment whose payload is fully present and at least 5 bytes long
GoodSOF(w) ==
    /\ AtCleanSOF(w)
    /\ w.len - 2 >= 5
    /\ w.at + (w.len - 2) <= Len(file)

\* the dimensions encoded at payload offsets 1-2 (height) and 3-4 (width)
EncodedDims(w) ==
    Ok(ByteAt(w.at + 3) * 256 + ByteAt(w.at + 4),
       ByteAt(w.at + 1) * 256 + ByteAt(w.at + 2))

Done == pc = "done"

(***************************************************************************)
(* Claims about readJPEGDimensions (SpecScan)                              *)
(***************************************************************************)

\* C1 as stated: for a stream FF D8, well-formed non-SOF segments (FF, type,
\* length, payload; the byte after FF taken as the type whatever it is), then
\* a SOF segment with a payload of 5 bytes or more, the scanner returns the
\* dimensions encoded in that first SOF segment.
C1_AnyTypeByte ==
    (Done /\ StartsWithSOI /\ GoodSOF(Literal)) => res = EncodedDims(Literal)

\* C1, amended: the same, for segments whose type byte is not FF (FF bytes
\* after a marker's FF are fill and are skipped before the type byte): the
\* scanner returns, without error, height and width of the FIRST SOF segment.
C1_FirstSOFDimensions ==
    (Done /\ StartsWithSOI /\ GoodSOF(Seen)) => res = EncodedDims(Seen)

\* a stream whose first SOF segment is followed by a second SOF segment that
\* encodes other dimensions, scanned to the end
C1_Witness ==
    /\ Done
    /\ StartsWithSOI
    /\ GoodSOF(Seen)
    /\ res = EncodedDims(Seen)
    /\ LET next == Seen.at + (Seen.len - 2)
           later == Walk(next, TRUE, FALSE, FALSE)
       IN  /\ GoodSOF(later)
           /\ EncodedDims(later) # EncodedDims(Seen)

\* C2: a SOF segment that declares a length of 2..6 (a payload shorter than
\* 5 bytes) makes the scanner fail with an error value: no panic, no
\* dimensions.
C2_ShortSOFFailsCleanly ==
    (Done /\ StartsWithSOI /\ AtCleanSOF(Seen) /\ Seen.len \in 2..6)
        => res.kind = "error"

\* C3: a segment, SOF or not, that declares a length below 2 makes the
\* scanner fail with an error: length-2 is never used wrapped around, and no
\* dimensions are returned.
C3_LengthBelowTwoFails ==
    (Done /\ StartsWithSOI
          /\ (Seen.badlen \/ (Seen.stop = "sof" /\ Seen.len < 2)))
        => res.kind = "error"

\* C4: a stream that ends inside a segment (the length is present, fewer than
\* length-2 payload bytes remain) makes the scanner return an error, also
\* when the truncated segment is the SOF segment.
C4_TruncatedSegmentFails ==
    (Done /\ StartsWithSOI /\ ~Seen.badlen
          /\ (Seen.trunc \/ (/\ Seen.stop = "sof"
                              /\ Seen.len >= 2
                              /\ Seen.at + (Seen.len - 2) > Len(file))))
        => res.kind = "error"

\* C5: a stream whose first two bytes are not FF D8 fails with the
\* not-a-JPEG error after the one read of those two bytes: nothing further
\* is read, whatever follows.
C5_NotAJPEGBeforeAnyWalk ==
    (Done /\ Len(file) >= 2 /\ ~StartsWithSOI)
        => /\ res = Err("not a valid JPEG file")
           /\ reads = 1
           /\ pos = 2

\* a stream that starts FF D9 and goes on with a complete SOF segment
C5_Witness ==
    /\ Done
    /\ Len(file) >= 2
    /\ file[1] = 255
    /\ file[2] # 216
    /\ GoodSOF(Seen)
    /\ res = Err("not a valid JPEG file")

\* C6: a stream that starts with FF D8 and has no marker of type C0..C3 at a
\* marker position makes the scanner return an error, never dimensions.
C6_NoFrameMarkerFails ==
    (Done /\ StartsWithSOI /\ Seen.stop # "sof"
          /\ ~(Seen.stop = "trunclen" /\ Seen.type \in SOFTypes))
        => res.kind = "error"

\* a stream of two complete non-SOF segments, walked to its end
C6_Witness ==
    /\ Done
    /\ StartsWithSOI
    /\ Seen.stop = "eof"
    /\ ~Seen.badlen
    /\ ~Seen.trunc
    /\ Seen.at = Len(file)
    /\ Len(file) >= 12
    /\ res = Err("EOF")

(***************************************************************************)
(* Crop.String / Crop.ID                                                   *)
(*                                                                         *)
(* A float64 field is modelled in fixed point, in units of 1/10000.  The   *)
(* values used are no exact ties of the 2-decimal rounding.                *)
(***************************************************************************)
Abs(v) == IF v < 0 THEN 0 - v ELSE v

\* the digits of n, at least two of them
TwoDigits(n) == IF n < 10 THEN "0" \o ToString(n) ELSE ToString(n)

\* fmt's %.2f: the sign of the value, then its magnitude rounded to
\* hundredths; a negative value that rounds to zero prints "-0.00"
FormatF2(v) ==
    LET h == (Abs(v) + 50) \div 100
    IN  (IF v < 0 THEN "-" ELSE "")
            \o ToString(h \div 100) \o "." \o TwoDigits(h % 100)

\* func (c Crop) String() string
String_WithoutHeight(c) ==
    "crop(x=" \o FormatF2(c.X) \o ",y=" \o FormatF2(c.Y)
        \o ",w=" \o FormatF2(c.Width) \o ")"
String(c) ==
    "crop(x=" \o FormatF2(c.X) \o ",y=" \o FormatF2(c.Y)
        \o ",w=" \o FormatF2(c.Width) \o ",h=" \o FormatF2(c.Height) \o ")"

\* md5 of the bytes, in hexadecimal: the digest is a value determined by the
\* text hashed (collisions between different texts are not modelled)
MD5Hex(text) == "md5[" \o text \o "]"

\* func (c Crop) ID() string; hash.Hash.Write never returns an error
ID(c) == MD5Hex(String(c))

\* md5.Size: the bytes of the digest m.Sum(nil)
MD5Size == 16

\* the length of the identifier: %x prints each byte of the digest as two
\* lowercase hexadecimal characters
IDLength(c) == 2 * MD5Size

FieldValues == {-10, 10, 1001, 1004}

Crops == [X : FieldValues, Y : FieldValues, Width : FieldValues, Height : FieldValues]

HashFirst ==
    /\ id1 = NoID
    /\ id1' = ID(c1)
    /\ UNCHANGED <<c1, c2, id2>>

HashSecond ==
    /\ id2 = NoID
    /\ id2' = ID(c2)
    /\ UNCHANGED <<c1, c2, id1>>

InitCrop ==
    /\ c1 \in Crops
    /\ c2 \in Crops
    /\ id1 = NoID
    /\ id2 = NoID
    /\ ScanIdle
    /\ OpIdle
    /\ ExecIdle
    /\ CodecIdle
    /\ WalkIdle
    /\ ServeIdle

NextCrop ==
    \/ HashFirst /\ UNCHANGED <<scanVars, opVars, execVars, codecVars, walkVars, serveVars>>
    \/ HashSecond /\ UNCHANGED <<scanVars, opVars, execVars, codecVars, walkVars, serveVars>>

SpecCrop == InitCrop /\ [][NextCrop]_vars

(***************************************************************************)
(* Claims about Crop.ID (SpecCrop)                                         *)
(***************************************************************************)

\* a field rounded to 2 decimals, as a number of hundredths (-0 is 0)
Round2(v) == IF v < 0 THEN 0 - ((Abs(v) + 50) \div 100) ELSE (v + 50) \div 100

Fields == {"X", "Y", "Width", "Height"}

SameAfterRounding(a, b) == \A f \in Fields : Round2(a[f]) = Round2(b[f])

\* a value that rounds to zero is printed with the sign it had
SameZeroSigns(a, b) ==
    \A f \in Fields : Round2(a[f]) = 0 => ((a[f] < 0) <=> (b[f] < 0))

BothHashed == id1 # NoID /\ id2 # NoID

\* C7 as stated: any two rectangles whose four fields are equal after
\* rounding to 2 decimals have the same identifier, and rectangles that
\* differ in a field after rounding have different canonical strings.
C7_EqualRoundedSameID ==
    BothHashed =>
        /\ SameAfterRounding(c1, c2) => id1 = id2
        /\ ~SameAfterRounding(c1, c2) => String(c1) # String(c2)

\* C7, amended: the identifier is a function of the rectangle; two
\* rectangles whose four fields are equal after rounding to 2 decimals, and
\* agree in sign where a field rounds to zero, have the same identifier;
\* rectangles that differ in a field after rounding have different
\* canonical strings.
C7_SameTextSameID ==
    BothHashed =>
        /\ c1 = c2 => id1 = id2
        /\ (SameAfterRounding(c1, c2) /\ SameZeroSigns(c1, c2)) => id1 = id2
        /\ ~SameAfterRounding(c1, c2) => String(c1) # String(c2)

\* x = 0.1001 and x = 0.1004, the other fields equal: one identifier
C7_Witness ==
    /\ BothHashed
    /\ c1.X = 1001
    /\ c2.X = 1004
    /\ c1.Y = c2.Y /\ c1.Width = c2.Width /\ c1.Height = c2.Height
    /\ id1 = id2

(***************************************************************************)
(* Operation: its JSON encoding and Operation.UnmarshalJSON                *)
(***************************************************************************)

\* encoding/json matches an object key to a field name exactly or, failing
\* that, case-insensitively
Fold(k) ==
    CASE k = "Type" -> "type"
      [] k = "Crop" -> "crop"
      [] k = "Pick" -> "pick"
      [] k = "Filename" -> "filename"
      [] OTHER -> k

\* the member of object d decoded into the field tagged name (the objects of
\* the model never hold two keys that fold to one name)
Lookup(d, name) ==
    LET ks == {k \in DOMAIN d.v : Fold(k) = name}
    IN  IF ks = {} THEN Absent ELSE d.v[CHOOSE k \in ks : TRUE]

\* a missing member and a null leave the field at its zero value
LeavesZero(f) == f = Absent \/ f = JNull

\* decoding into a Go string / float64 / Crop field
StringOk(f) == LeavesZero(f) \/ f.j = "string"
StringOf(f) == IF LeavesZero(f) THEN "" ELSE f.v
FloatOk(f) == LeavesZero(f) \/ f.j = "number"
FloatOf(f) == IF LeavesZero(f) THEN 0 ELSE f.v

CropFieldOk(f) ==
    \/ LeavesZero(f)
    \/ /\ f.j = "object"
       /\ \A k \in {"x", "y", "w", "h"} : FloatOk(Lookup(f, k))

CropFieldOf(f) ==
    IF LeavesZero(f) THEN ZeroCrop
    ELSE [X |-> FloatOf(Lookup(f, "x")), Y |-> FloatOf(Lookup(f, "y")),
          Width |-> FloatOf(Lookup(f, "w")), Height |-> FloatOf(Lookup(f, "h"))]

\* json.Unmarshal(data, &op) with op struct{ Type string `json:"type"` }
TypeDecodes(d) == d = JNull \/ (d.j = "object" /\ StringOk(Lookup(d, "type")))
TypeOf(d) == IF d = JNull THEN "" ELSE StringOf(Lookup(d, "type"))

\* json.Unmarshal(data, &crop) with crop CropOperation (data is an object)
CropOperationDecodes(d) ==
    StringOk(Lookup(d, "filename")) /\ CropFieldOk(Lookup(d, "crop"))
CropOperationOf(d) ==
    [Filename |-> StringOf(Lookup(d, "filename")),
     Crop |-> CropFieldOf(Lookup(d, "crop"))]

\* json.Unmarshal(data, &pick) with pick PickOperation (data is an object)
PickOperationDecodes(d) == StringOk(Lookup(d, "filename"))
PickOperationOf(d) == [Filename |-> StringOf(Lookup(d, "filename"))]

\* default: return fmt.Errorf("unknown operation %q", op.Type)
UnknownOperation_Ignored(o, t) == [op |-> o, err |-> NoError]
UnknownOperation_AsPick(o, t) ==
    [op |-> [o EXCEPT !.Pick = [Filename |-> ""]], err |-> NoError]
UnknownOperation(o, t) ==
    [op |-> o, err |-> [msg |-> "unknown operation", arg |-> t]]

\* func (o *Operation) UnmarshalJSON(data []byte) error: the Operation after
\* the call and the error returned
UnmarshalJSON(o, d) ==
    IF ~TypeDecodes(d)
      THEN [op |-> o, err |-> [msg |-> "failed to unmarshal operation", arg |-> "type"]]
    ELSE IF TypeOf(d) = "crop"
      THEN IF ~CropOperationDecodes(d)
             THEN [op |-> o,
                   err |-> [msg |-> "failed to unmarshal crop operation", arg |-> "crop"]]
             ELSE [op |-> [o EXCEPT !.Crop = CropOperationOf(d)], err |-> NoError]
    ELSE IF TypeOf(d) = "pick"
      THEN IF ~PickOperationDecodes(d)
             THEN [op |-> o,
                   err |-> [msg |-> "failed to unmarshal pick operation", arg |-> "pick"]]
             ELSE [op |-> [o EXCEPT !.Pick = PickOperationOf(d)], err |-> NoError]
    ELSE UnknownOperation(o, TypeOf(d))

\* encoding/json of the structs: Operation has no MarshalJSON and no tags, so
\* its members are "Crop" and "Pick", a nil pointer is null; a float64 is
\* written in the shortest form that reads back as the same float64
EncodeCrop(c) ==
    JObject([x |-> JNumber(c.X), y |-> JNumber(c.Y),
             w |-> JNumber(c.Width), h |-> JNumber(c.Height)])

EncodeCropOperation(p) ==
    IF p = NilPtr THEN JNull
    ELSE JObject([filename |-> JString(p.Filename), crop |-> EncodeCrop(p.Crop)])

EncodePickOperation(p) ==
    IF p = NilPtr THEN JNull
    ELSE JObject([filename |-> JString(p.Filename)])

EncodeOperation(o) ==
    JObject([Crop |-> EncodeCropOperation(o.Crop), Pick |-> EncodePickOperation(o.Pick)])

\* the elements of "operations" decoded in order, each into a zero Operation
DecodeAll(recs) == [i \in 1..Len(recs) |-> UnmarshalJSON(EmptyOperation, recs[i])]

\* printJSONL: enc.Encode(item) of one Operation
EncodeOp ==
    /\ opc = "encode"
    /\ data' = EncodeOperation(src)
    /\ opc' = "decode"
    /\ UNCHANGED <<src, op, derr, batch>>

\* json.Unmarshal of one record into a fresh Operation
DecodeOp ==
    /\ opc = "decode"
    /\ op' = UnmarshalJSON(EmptyOperation, data).op
    /\ derr' = UnmarshalJSON(EmptyOperation, data).err
    /\ opc' = "decoded"
    /\ UNCHANGED <<data, src, batch>>

\* the /api/save handler: c.BodyParser(&request) decodes "operations"; an
\* error of any element is returned and OnSave is not called; otherwise
\* a.config.OnSave(request.Operations)
SaveRequest ==
    /\ opc = "save"
    /\ LET rs == DecodeAll(data)
           bad == {i \in 1..Len(rs) : rs[i].err # NoError}
       IN  IF bad # {}
             THEN /\ derr' = rs[CHOOSE i \in bad : \A k \in bad : i <= k].err
                  /\ opc' = "rejected"
                  /\ UNCHANGED batch
             ELSE /\ batch' = [i \in 1..Len(rs) |-> rs[i].op]
                  /\ opc' = "saved"
                  /\ UNCHANGED derr
    /\ UNCHANGED <<data, src, op>>

(***************************************************************************)
(* The operations encoded, and the records and requests decoded            *)
(***************************************************************************)
Rects == {[X |-> 1000, Y |-> 1000, Width |-> 5000, Height |-> 5000],
          [X |-> 1001, Y |-> 0, Width |-> 3333, Height |-> 10000]}

Filenames == {"photo.jpg", "sub/b.jpeg"}

SourceOperations ==
    {[Crop |-> [Filename |-> f, Crop |-> r], Pick |-> NilPtr] : f \in Filenames, r \in Rects}
        \cup {[Crop |-> NilPtr, Pick |-> [Filename |-> f]] : f \in Filenames}

\* an object with the members given that are not Absent
Record(typeKey, type, filename, crop) ==
    LET keys == (IF type = Absent THEN {} ELSE {typeKey})
                   \cup (IF filename = Absent THEN {} ELSE {"filename"})
                   \cup (IF crop = Absent THEN {} ELSE {"crop"})
    IN  JObject([k \in keys |-> IF k = typeKey THEN type
                                ELSE IF k = "filename" THEN filename ELSE crop])

TypeMembers ==
    {Absent, JNull, JNumber(5)}
        \cup {JString(t) : t \in {"", "crop", "pick", "resize", "Crop"}}

FilenameMembers == {Absent, JNumber(1)} \cup {JString(f) : f \in Filenames}

CropMembers ==
    {Absent, JNull, JString("bad"), JObject([x |-> JString("0.1"), y |-> JNumber(0)])}
        \cup {EncodeCrop(r) : r \in Rects}

Records ==
    {JNull} \cup
    {Record(k, t, f, c) : k \in {"type", "Type"}, t \in TypeMembers,
                          f \in FilenameMembers, c \in CropMembers}

\* the records of a save request
BatchRecords ==
    {JNull,
     Record("type", JString("crop"), JString("photo.jpg"), EncodeCrop(ZeroCrop)),
     Record("type", JString("crop"), JString("photo.jpg"), JString("bad")),
     Record("type", JString("pick"), JString("photo.jpg"), Absent),
     Record("type", JString("resize"), JString("photo.jpg"), Absent),
     Record("type", Absent, JString("photo.jpg"), Absent)}

Requests == UNION {[1..n -> BatchRecords] : n \in 0..MaxOps}

InitOp ==
    /\ \/ /\ opc = "encode"
          /\ src \in SourceOperations
          /\ data = JNull
       \/ /\ opc = "decode"
          /\ src = EmptyOperation
          /\ data \in Records
       \/ /\ opc = "save"
          /\ src = EmptyOperation
          /\ data \in Requests
    /\ op = EmptyOperation
    /\ derr = NoError
    /\ batch = <<>>
    /\ ScanIdle
    /\ CropIdle
    /\ ExecIdle
    /\ CodecIdle
    /\ WalkIdle
    /\ ServeIdle

NextOp ==
    \/ EncodeOp /\ UNCHANGED <<scanVars, cropVars, execVars, codecVars, walkVars, serveVars>>
    \/ DecodeOp /\ UNCHANGED <<scanVars, cropVars, execVars, codecVars, walkVars, serveVars>>
    \/ SaveRequest /\ UNCHANGED <<scanVars, cropVars, execVars, codecVars, walkVars, serveVars>>

SpecOp == InitOp /\ [][NextOp]_vars

(***************************************************************************)
(* Claims about the operation model (SpecOp)                               *)
(***************************************************************************)
ExactlyOneVariant(o) == (o.Crop = NilPtr) # (o.Pick = NilPtr)

\* the discriminant of a record, read off the record: the string under
\* "type" (in any case of the key), "" when missing or null or when the record
\* is null; a member that is no string has no discriminant value
HasType(d) == d # JNull /\ \E k \in DOMAIN d.v : k \in {"type", "Type"}
TypeMember(d) == d.v[CHOOSE k \in DOMAIN d.v : k \in {"type", "Type"}]
Discriminant(d) ==
    IF ~HasType(d) \/ TypeMember(d) = JNull THEN ""
    ELSE IF TypeMember(d).j = "string" THEN TypeMember(d).v
    ELSE "(not a string)"

\* C8: encoding an Operation that holds a Crop (or a Pick) and decoding the
\* result with Operation.UnmarshalJSON succeeds and yields the same operation.
C8_RoundTrip ==
    (opc = "decoded" /\ src # EmptyOperation) => (derr = NoError /\ op = src)

\* C9: decoding a record whose discriminant is anything other than "crop" or
\* "pick" returns an error that names the discriminant (its value, or the
\* field "type" when the member is no string) and leaves the Operation with
\* neither variant populated.
C9_UnknownDiscriminantFails ==
    (opc = "decoded" /\ src = EmptyOperation /\ Discriminant(data) \notin {"crop", "pick"})
        => /\ op = EmptyOperation
           /\ IF Discriminant(data) = "(not a string)"
                THEN derr = [msg |-> "failed to unmarshal operation", arg |-> "type"]
                ELSE derr = [msg |-> "unknown operation", arg |-> Discriminant(data)]

\* a record of type "resize" with a filename and a rectangle, decoded
C9_Witness ==
    /\ opc = "decoded"
    /\ src = EmptyOperation
    /\ Discriminant(data) = "resize"
    /\ "filename" \in DOMAIN data.v
    /\ "crop" \in DOMAIN data.v
    /\ derr = [msg |-> "unknown operation", arg |-> "resize"]
    /\ op = EmptyOperation

\* C10: a successful decode into a fresh Operation populates exactly one
\* variant, Crop for type "crop" and Pick for type "pick"; every operation of
\* a batch that the save handler passes on has exactly one variant.
C10_ExactlyOneVariant ==
    /\ (opc = "decoded" /\ derr = NoError) =>
          /\ ExactlyOneVariant(op)
          /\ Discriminant(data) = "crop" => (op.Crop # NilPtr /\ op.Pick = NilPtr)
          /\ Discriminant(data) = "pick" => (op.Pick # NilPtr /\ op.Crop = NilPtr)
          /\ Discriminant(data) \in {"crop", "pick"}
    /\ opc = "saved" => \A i \in 1..Len(batch) : ExactlyOneVariant(batch[i])

\* a save request of one crop and one pick, passed on to OnSave
C10_Witness ==
    /\ opc = "saved"
    /\ Len(batch) = 2
    /\ batch[1].Crop # NilPtr
    /\ batch[2].Pick # NilPtr

(***************************************************************************)
(* The file system seen by the executor                                    *)
(*                                                                         *)
(* A path is the sequence of its components; a file's bytes are a value    *)
(* naming the image they encode and the pixel rectangle of the original    *)
(* that the image shows.                                                   *)
(***************************************************************************)

\* the components of a slash-separated name
SplitPath(name) ==
    CASE name = "sub/photo.jpg" -> <<"sub", "photo.jpg">>
      [] name = "../photo.jpg" -> <<"..", "photo.jpg">>
      [] OTHER -> <<name>>

\* filepath.Clean on the components: a ".." removes the component before it
RECURSIVE CleanOnto(_, _)
CleanOnto(done, rest) ==
    IF rest = <<>> THEN done
    ELSE IF Head(rest) = ".."
         THEN CleanOnto(IF done = <<>> THEN <<>> ELSE SubSeq(done, 1, Len(done) - 1),
                        Tail(rest))
         ELSE CleanOnto(Append(done, Head(rest)), Tail(rest))

\* filepath.Join(dir, name)
Join(dir, name) == CleanOnto(<<>>, dir \o SplitPath(name))

\* filepath.Base(name)
Base(name) == LET p == SplitPath(name) IN p[Len(p)]

\* filepath.Dir of a path
Dir(path) == SubSeq(path, 1, Len(path) - 1)

\* OperationExecutor.BaseDir and OperationExecutor.OutputDir as serveCmd.Run
\* sets them: the root directory and its "output" sub-directory
BaseDir == <<"root">>
OutputDir == BaseDir \o <<"output">>

\* the bytes of an empty file
EmptyFile == [img |-> "", r |-> <<0, 0, 0, 0>>]

\* the bytes of a whole image of w x h pixels
Image(name, w, h) == [img |-> name, r |-> <<0, 0, w, h>>]

\* os.Open(path) succeeds: on a file, and read-only on a directory too
CanOpen(path) == path \in DOMAIN files \/ path \in dirs

\* the bytes a reader of an opened path gets: reading a directory is an error
\* (EISDIR) that yields no bytes
ReadAll(path) == IF path \in dirs THEN EmptyFile ELSE files[path]

\* os.Create(path) succeeds: the directory of the path exists and the path
\* is not itself a directory
CanCreate(path) == Dir(path) \in dirs /\ path \notin dirs

Max(a, b) == IF a > b THEN a ELSE b

\* the files after path holds exactly the bytes b
Stored(path, b) == [q \in DOMAIN files \cup {path} |-> IF q = path THEN b ELSE files[q]]

\* the length of the bytes of an image: one unit for each pixel it shows, so
\* that encodings of more pixels are longer
Size(b) == (b.r[3] - b.r[1]) * (b.r[4] - b.r[2])

\* bytes as the pieces they are made of: an image from offset 0 and, where a
\* shorter image was written over a longer one, what is left behind it
Extents(b) ==
    <<[img |-> b.img, r |-> b.r, from |-> 0, to |-> Size(b)]>>
        \o (IF "tail" \in DOMAIN b THEN b.tail ELSE <<>>)

\* the pieces of b that lie beyond offset n
Beyond(b, n) ==
    LET Reaches(piece) == piece.to > n
        kept == SelectSeq(Extents(b), Reaches)
    IN  [k \in 1..Len(kept) |-> [kept[k] EXCEPT !.from = Max(@, n)]]

\* the bytes of a file that held old after b is written at offset 0 through
\* a descriptor of its own: a write replaces Len(b) bytes and cuts nothing
WrittenOver(old, b) ==
    LET all == Extents(b)
        end == all[Len(all)].to
        left == Tail(all) \o Beyond(old, end)
    IN  IF left = <<>> THEN [img |-> b.img, r |-> b.r]
        ELSE [img |-> b.img, r |-> b.r, tail |-> left]

\* the files after bytes b are written to the file at path
Written(path, b) == Stored(path, WrittenOver(files[path], b))

\* the directories os.MkdirAll(path) leaves: the path and every parent
MkdirAllDirs(path) == dirs \cup {SubSeq(path, 1, n) : n \in 0..Len(path)}

(***************************************************************************)
(* ImagingCropper.Crop                                                     *)
(***************************************************************************)

\* int(f) of a float64: the fraction is dropped, towards zero
TruncDiv(a, b) == IF a >= 0 THEN a \div b ELSE 0 - ((0 - a) \div b)

\* int(frac * float64(dim)) for a fraction in units of 1/10000
Pixels(frac, dim) == TruncDiv(frac * dim, 10000)

\* image.Rectangle.Empty
RectEmpty(r) == r[1] >= r[3] \/ r[2] >= r[4]

\* a containment test that accepts every rectangle
RectIn_Always(r, s) == TRUE

\* image.Rectangle.In
RectIn(r, s) ==
    \/ RectEmpty(r)
    \/ s[1] <= r[1] /\ r[3] <= s[3] /\ s[2] <= r[2] /\ r[4] <= s[4]

\* image.Rectangle.Intersect (the zero rectangle when nothing is shared)
Intersect(r, s) ==
    LET t == <<Max(r[1], s[1]), Max(r[2], s[2]), Min(r[3], s[3]), Min(r[4], s[4])>>
    IN  IF RectEmpty(t) THEN <<0, 0, 0, 0>> ELSE t

\* a codec that scales the width of the rectangle by the image height
Crop_WidthFromHeight(source, crop) ==
    LET bounds == source.r
        imgWidth == bounds[3] - bounds[1]
        imgHeight == bounds[4] - bounds[2]
        x == Pixels(crop.X, imgWidth)
        y == Pixels(crop.Y, imgHeight)
        width == Pixels(crop.Width, imgHeight)
        height == Pixels(crop.Height, imgHeight)
        cropRect == <<x, y, x + width, y + height>>
        fitted == IF RectIn(cropRect, bounds) THEN cropRect
                  ELSE Intersect(cropRect, bounds)
    IN  IF source.img = ""
        THEN [err |-> "failed to decode image", out |-> EmptyFile]
        ELSE IF width <= 0 \/ height <= 0
        THEN [err |-> "invalid crop dimensions", out |-> EmptyFile]
        ELSE IF RectEmpty(fitted)
        THEN [err |-> "crop rectangle is outside image bounds", out |-> EmptyFile]
        ELSE [err |-> "", out |-> [img |-> source.img, r |-> fitted]]

\* func (c *ImagingCropper) Crop: the error ("" for nil) and the bytes
\* written to w for the bytes read from r
Crop(source, crop) ==
    LET bounds == source.r
        imgWidth == bounds[3] - bounds[1]
        imgHeight == bounds[4] - bounds[2]
        x == Pixels(crop.X, imgWidth)
        y == Pixels(crop.Y, imgHeight)
        width == Pixels(crop.Width, imgWidth)
        height == Pixels(crop.Height, imgHeight)
        cropRect == <<x, y, x + width, y + height>>
        fitted == IF RectIn(cropRect, bounds) THEN cropRect
                  ELSE Intersect(cropRect, bounds)
    IN  IF source.img = ""
        THEN [err |-> "failed to decode image", out |-> EmptyFile]
        ELSE IF width <= 0 \/ height <= 0
        THEN [err |-> "invalid crop dimensions", out |-> EmptyFile]
        ELSE IF RectEmpty(fitted)
        THEN [err |-> "crop rectangle is outside image bounds", out |-> EmptyFile]
        ELSE [err |-> "", out |-> [img |-> source.img, r |-> fitted]]

(***************************************************************************)
(* OperationExecutor.Exec and its worker pool                              *)
(***************************************************************************)

\* runtime.NumCPU() of the host
NumCPU == 2

\* the longest batch
MaxBatch == 3

\* a pool with no limit on its goroutines
MaxGoroutines_Unlimited == Len(ops) + 1

\* WithMaxGoroutines(runtime.NumCPU())
MaxGoroutines == NumCPU

Running(i) == st[i] \in {"open", "create", "write"}
Terminal(i) == st[i] \in {"succeeded", "failed"}

\* the number of operations a worker is executing
NumRunning == Cardinality({i \in 1..Len(ops) : Running(i)})

\* a task whose error the pool does not keep
Failed_Dropped(i, msg) ==
    /\ st' = [st EXCEPT ![i] = "failed"]
    /\ oerr' = [oerr EXCEPT ![i] = msg]
    /\ errs' = errs

\* the operation returned err: the pool collects it
Failed(i, msg) ==
    /\ st' = [st EXCEPT ![i] = "failed"]
    /\ oerr' = [oerr EXCEPT ![i] = msg]
    /\ errs' = errs \cup {i}

\* the operation returned nil
Succeeded(i) ==
    /\ st' = [st EXCEPT ![i] = "succeeded"]
    /\ UNCHANGED <<oerr, errs>>

\* an Exec without the early return on an empty batch
ExecEnter_NoEmptyCheck ==
    /\ epc = "entry"
    /\ epc' = "mkdir"
    /\ UNCHANGED <<ops, st, runs, oerr, wbuf, files, dirs, nexti, errs, eret,
                   mkdirFails, cancelled>>

\* Exec up to the creation of the pool: an empty batch returns at once
ExecEnter ==
    /\ epc = "entry"
    /\ IF Len(ops) = 0
       THEN epc' = "returned" /\ eret' = "nil"
       ELSE epc' = "mkdir" /\ eret' = eret
    /\ UNCHANGED <<ops, st, runs, oerr, wbuf, files, dirs, nexti, errs,
                   mkdirFails, cancelled>>

\* an Exec that goes on to submit the batch when os.MkdirAll failed
MkdirAll_ErrorIgnored ==
    /\ epc = "mkdir"
    /\ dirs' = IF mkdirFails THEN dirs ELSE MkdirAllDirs(OutputDir)
    /\ epc' = "submit"
    /\ nexti' = 1
    /\ UNCHANGED <<ops, st, runs, oerr, wbuf, files, errs, eret,
                   mkdirFails, cancelled>>

\* os.MkdirAll(r.OutputDir, 0755)
MkdirAll ==
    /\ epc = "mkdir"
    /\ IF mkdirFails
       THEN /\ epc' = "returned"
            /\ eret' = "failed to create output directory"
            /\ UNCHANGED <<dirs, nexti>>
       ELSE /\ dirs' = MkdirAllDirs(OutputDir)
            /\ epc' = "submit"
            /\ nexti' = 1
            /\ eret' = eret
    /\ UNCHANGED <<ops, st, runs, oerr, wbuf, files, errs,
                   mkdirFails, cancelled>>

\* whether the pool hands a submitted task to a worker
Admits == NumRunning < MaxGoroutines

\* pooler.Go for the next operation of the range loop: the call returns when
\* a worker has taken the task, and blocks while every worker is busy.  The
\* pool does not consult the ctx before running a task (no cancel-on-error,
\* no fail-fast), and each task works on the op of its own iteration (the
\* release build uses Go 1.24, where the range variable is per iteration).
Go ==
    /\ epc = "submit"
    /\ nexti <= Len(ops)
    /\ Admits
    /\ st' = [st EXCEPT ![nexti] = "open"]
    /\ runs' = [runs EXCEPT ![nexti] = @ + 1]
    /\ nexti' = nexti + 1
    /\ epc' = IF nexti = Len(ops) THEN "wait" ELSE "submit"
    /\ UNCHANGED <<ops, oerr, wbuf, files, dirs, errs, eret, mkdirFails, cancelled>>

\* pooler.Wait() that does not wait for the operations still running
Wait_WithoutBarrier ==
    /\ epc = "wait"
    /\ epc' = "returned"
    /\ eret' = IF errs = {} THEN "nil" ELSE "operation errors"
    /\ UNCHANGED <<ops, st, runs, oerr, wbuf, files, dirs, nexti, errs,
                   mkdirFails, cancelled>>

\* pooler.Wait() and the return of Exec
Wait ==
    /\ epc = "wait"
    /\ \A i \in 1..Len(ops) : Terminal(i)
    /\ epc' = "returned"
    /\ eret' = IF errs = {} THEN "nil" ELSE "operation errors"
    /\ UNCHANGED <<ops, st, runs, oerr, wbuf, files, dirs, nexti, errs,
                   mkdirFails, cancelled>>

\* the ctx passed to Exec is cancelled while the batch is being submitted
\* or waited for
Cancel ==
    /\ epc \in {"submit", "wait"}
    /\ ~cancelled
    /\ cancelled' = TRUE
    /\ UNCHANGED <<ops, st, runs, oerr, wbuf, files, dirs, epc, nexti, errs,
                   eret, mkdirFails>>

\* sourcePath := filepath.Join(r.BaseDir, op.Filename)
SourcePath(o) == Join(BaseDir, o.Filename)

\* an output name without the .jpg extension
NewName_NoExtension(o) == Base(o.Filename) \o "-" \o ID(o.Crop)

\* newName := fmt.Sprintf("%s-%s.jpg", filepath.Base(op.Filename), op.Crop.ID())
NewName(o) == Base(o.Filename) \o "-" \o ID(o.Crop) \o ".jpg"

\* croppedPath := filepath.Join(r.OutputDir, newName)
CroppedPath(o) == Join(OutputDir, NewName(o))

\* savePath := filepath.Join(r.OutputDir, op.Filename)
SavePath(o) == Join(OutputDir, o.Filename)

IsCrop(o) == o.Crop # NilPtr
IsPick(o) == o.Crop = NilPtr /\ o.Pick # NilPtr

\* executeCrop: the source is opened and the codec fills the buffer
CropOpen(i) ==
    /\ st[i] = "open"
    /\ IsCrop(ops[i])
    /\ LET o == ops[i].Crop
       IN  IF ~CanOpen(SourcePath(o))
           THEN Failed(i, "failed to open file") /\ wbuf' = wbuf
           ELSE LET c == Crop(ReadAll(SourcePath(o)), o.Crop)
                IN  IF c.err # ""
                    THEN Failed(i, c.err) /\ wbuf' = wbuf
                    ELSE /\ st' = [st EXCEPT ![i] = "create"]
                         /\ wbuf' = [wbuf EXCEPT ![i] = c.out]
                         /\ UNCHANGED <<oerr, errs>>
    /\ UNCHANGED <<ops, runs, files, dirs, epc, nexti, eret, mkdirFails,
                   cancelled>>

\* executeCrop: os.Create(croppedPath) truncates or creates the output
CropCreate(i) ==
    /\ st[i] = "create"
    /\ IsCrop(ops[i])
    /\ LET o == ops[i].Crop
       IN  IF ~CanCreate(CroppedPath(o))
           THEN Failed(i, "failed to create file") /\ files' = files
           ELSE /\ st' = [st EXCEPT ![i] = "write"]
                /\ files' = Stored(CroppedPath(o), EmptyFile)
                /\ UNCHANGED <<oerr, errs>>
    /\ UNCHANGED <<ops, runs, wbuf, dirs, epc, nexti, eret, mkdirFails,
                   cancelled>>

\* executeCrop: b.WriteTo(wf)
CropWrite(i) ==
    /\ st[i] = "write"
    /\ IsCrop(ops[i])
    /\ files' = Written(CroppedPath(ops[i].Crop), wbuf[i])
    /\ Succeeded(i)
    /\ UNCHANGED <<ops, runs, wbuf, dirs, epc, nexti, eret, mkdirFails,
                   cancelled>>

\* copyFile: os.Open(sourcePath)
PickOpen(i) ==
    /\ st[i] = "open"
    /\ IsPick(ops[i])
    /\ IF ~CanOpen(SourcePath(ops[i].Pick))
       THEN Failed(i, "failed to open source file")
       ELSE /\ st' = [st EXCEPT ![i] = "create"]
            /\ UNCHANGED <<oerr, errs>>
    /\ UNCHANGED <<ops, runs, wbuf, files, dirs, epc, nexti, eret, mkdirFails,
                   cancelled>>

\* copyFile: os.Create(destPath)
PickCreate(i) ==
    /\ st[i] = "create"
    /\ IsPick(ops[i])
    /\ LET o == ops[i].Pick
       IN  IF ~CanCreate(SavePath(o))
           THEN Failed(i, "failed to create destination file") /\ files' = files
           ELSE /\ st' = [st EXCEPT ![i] = "write"]
                /\ files' = Stored(SavePath(o), EmptyFile)
                /\ UNCHANGED <<oerr, errs>>
    /\ UNCHANGED <<ops, runs, wbuf, dirs, epc, nexti, eret, mkdirFails,
                   cancelled>>

\* copyFile: io.Copy(destFile, sourceFile); the read of a directory fails
PickCopy(i) ==
    /\ st[i] = "write"
    /\ IsPick(ops[i])
    /\ LET o == ops[i].Pick
       IN  IF SourcePath(o) \in dirs
           THEN Failed(i, "failed to copy file") /\ files' = files
           ELSE files' = Written(SavePath(o), files[SourcePath(o)]) /\ Succeeded(i)
    /\ UNCHANGED <<ops, runs, wbuf, dirs, epc, nexti, eret, mkdirFails,
                   cancelled>>

\* an executeOperation that rejects an Operation with neither variant, as
\* Operation.Run of the earlier server did ("no valid operation found")
NoVariant_Rejected(i) ==
    /\ st[i] = "open"
    /\ ~IsCrop(ops[i])
    /\ ~IsPick(ops[i])
    /\ Failed(i, "no valid operation found")
    /\ UNCHANGED <<ops, runs, wbuf, files, dirs, epc, nexti, eret, mkdirFails,
                   cancelled>>

\* executeOperation on an Operation with neither variant: return nil
NoVariant(i) ==
    /\ st[i] = "open"
    /\ ~IsCrop(ops[i])
    /\ ~IsPick(ops[i])
    /\ Succeeded(i)
    /\ UNCHANGED <<ops, runs, wbuf, files, dirs, epc, nexti, eret, mkdirFails,
                   cancelled>>

(***************************************************************************)
(* The batches and file systems Exec is run on                             *)
(***************************************************************************)

\* two rectangles with the same text at 2 decimals and different pixels on
\* a 1200 x 800 image, and one of no width
RectA == [X |-> 1010, Y |-> 1000, Width |-> 5000, Height |-> 5000]
RectB == [X |-> 1040, Y |-> 1000, Width |-> 5000, Height |-> 5000]
RectFlat == [X |-> 1000, Y |-> 1000, Width |-> 0, Height |-> 5000]

CropOf(f, r) == [Crop |-> [Filename |-> f, Crop |-> r], Pick |-> NilPtr]
PickOf(f) == [Crop |-> NilPtr, Pick |-> [Filename |-> f]]

ExecOperations ==
    {PickOf("photo.jpg"), PickOf("gone.jpg"), PickOf("sub/photo.jpg"),
     CropOf("photo.jpg", RectA), CropOf("photo.jpg", RectB),
     CropOf("sub/photo.jpg", RectA), CropOf("photo.jpg", RectFlat),
     EmptyOperation}

Batches == UNION {[1..n -> ExecOperations] : n \in 0..MaxBatch}

\* the root directory before Exec: two images, one of them in a
\* sub-directory, as walkImages lists them, and no output directory yet
SourceFiles ==
    [q \in {BaseDir \o <<"photo.jpg">>, BaseDir \o <<"sub", "photo.jpg">>} |->
        IF Len(q) = 2 THEN Image("photo", 1200, 800) ELSE Image("sub/photo", 1200, 800)]

SourceDirs == {<<>>, BaseDir, BaseDir \o <<"sub">>}

InitExec ==
    /\ ops \in Batches
    /\ st = [i \in 1..Len(ops) |-> "pending"]
    /\ runs = [i \in 1..Len(ops) |-> 0]
    /\ oerr = [i \in 1..Len(ops) |-> ""]
    /\ wbuf = [i \in 1..Len(ops) |-> EmptyFile]
    /\ files = SourceFiles
    /\ dirs = SourceDirs
    /\ mkdirFails \in BOOLEAN
    /\ epc = "entry"
    /\ nexti = 0
    /\ errs = {}
    /\ eret = "none"
    /\ cancelled = FALSE
    /\ ScanIdle
    /\ CropIdle
    /\ OpIdle
    /\ CodecIdle
    /\ WalkIdle
    /\ ServeIdle

NextExec ==
    \/ ExecEnter /\ UNCHANGED <<scanVars, cropVars, opVars, codecVars, walkVars, serveVars>>
    \/ MkdirAll /\ UNCHANGED <<scanVars, cropVars, opVars, codecVars, walkVars, serveVars>>
    \/ Go /\ UNCHANGED <<scanVars, cropVars, opVars, codecVars, walkVars, serveVars>>
    \/ Wait /\ UNCHANGED <<scanVars, cropVars, opVars, codecVars, walkVars, serveVars>>
    \/ Cancel /\ UNCHANGED <<scanVars, cropVars, opVars, codecVars, walkVars, serveVars>>
    \/ (\E i \in 1..Len(ops) : CropOpen(i)) /\ UNCHANGED <<scanVars, cropVars, opVars, codecVars, walkVars, serveVars>>
    \/ (\E i \in 1..Len(ops) : CropCreate(i)) /\ UNCHANGED <<scanVars, cropVars, opVars, codecVars, walkVars, serveVars>>
    \/ (\E i \in 1..Len(ops) : CropWrite(i)) /\ UNCHANGED <<scanVars, cropVars, opVars, codecVars, walkVars, serveVars>>
    \/ (\E i \in 1..Len(ops) : PickOpen(i)) /\ UNCHANGED <<scanVars, cropVars, opVars, codecVars, walkVars, serveVars>>
    \/ (\E i \in 1..Len(ops) : PickCreate(i)) /\ UNCHANGED <<scanVars, cropVars, opVars, codecVars, walkVars, serveVars>>
    \/ (\E i \in 1..Len(ops) : PickCopy(i)) /\ UNCHANGED <<scanVars, cropVars, opVars, codecVars, walkVars, serveVars>>
    \/ (\E i \in 1..Len(ops) : NoVariant(i)) /\ UNCHANGED <<scanVars, cropVars, opVars, codecVars, walkVars, serveVars>>

SpecExec == InitExec /\ [][NextExec]_vars

(***************************************************************************)
(* Claims about Exec (SpecExec)                                            *)
(***************************************************************************)

HasVariant(o) == IsCrop(o) \/ IsPick(o)

\* the file name an operation is given
FilenameOf(o) == IF IsCrop(o) THEN o.Crop.Filename ELSE o.Pick.Filename

\* the source and the output path of an operation that has a variant
SourceOf(o) == Join(BaseDir, FilenameOf(o))
OutputOf(o) == IF IsCrop(o) THEN CroppedPath(o.Crop) ELSE SavePath(o.Pick)

\* the operation names a file that is not in the root directory
SourceMissing(o) == HasVariant(o) /\ SourceOf(o) \notin DOMAIN SourceFiles

\* the operation succeeds when run with no sibling: its source is there, the
\* codec accepts its rectangle, and its output lies directly in the output
\* directory
SoundAlone(o) ==
    IF ~HasVariant(o) THEN TRUE
    ELSE /\ ~SourceMissing(o)
         /\ Dir(OutputOf(o)) = OutputDir
         /\ IsCrop(o) => Crop(SourceFiles[SourceOf(o)], o.Crop.Crop).err = ""

\* Exec returned from pooler.Wait(): the batch was not empty and the output
\* directory was created
ReturnedFromWait == epc = "returned" /\ nexti > 0

OutputExists(o) == OutputOf(o) \in DOMAIN files /\ files[OutputOf(o)] # EmptyFile

\* C11 as stated: when exactly one operation of the batch targets a missing
\* source file, the output files of all the other operations exist when Exec
\* returns, whatever those operations are.
C11_OthersAllProduceOutput ==
    (/\ ReturnedFromWait
     /\ Cardinality({i \in 1..Len(ops) : SourceMissing(ops[i])}) = 1)
        => \A j \in 1..Len(ops) :
              (HasVariant(ops[j]) /\ ~SourceMissing(ops[j])) => OutputExists(ops[j])

\* C11, amended: the failure of one operation never prevents another from
\* running.  No operation is started twice; when Exec returns from the pool
\* every operation was started exactly once and is Succeeded or Failed; an
\* operation fails only if it would fail with no sibling at all (its source
\* is missing, its rectangle is refused by the codec, or its output file
\* cannot be created); and the output file of every operation that succeeded
\* exists.  In particular, in a batch where one operation targets a missing
\* source and the others are sound on their own, all the other outputs exist.
C11_FailureIsolated ==
    /\ \A i \in 1..Len(ops) : runs[i] <= 1
    /\ ReturnedFromWait =>
          \A i \in 1..Len(ops) :
              /\ runs[i] = 1
              /\ Terminal(i)
              /\ (st[i] = "succeeded") <=> SoundAlone(ops[i])
              /\ (st[i] = "succeeded" /\ HasVariant(ops[i])) => OutputExists(ops[i])

\* a batch of three returned with exactly one operation failed on a missing
\* source and the outputs of the two others in place
C11_Witness ==
    /\ ReturnedFromWait
    /\ Len(ops) = 3
    /\ \E i \in 1..3 :
          /\ SourceMissing(ops[i])
          /\ st[i] = "failed"
          /\ \A j \in (1..3) \ {i} :
                HasVariant(ops[j]) /\ st[j] = "succeeded" /\ OutputExists(ops[j])

\* C12: for a non-empty batch whose output directory can be created, Exec
\* returns a non-nil error if and only if at least one operation failed, and
\* nil if and only if every operation succeeded.
C12_ErrorIffSomeFailed ==
    ReturnedFromWait =>
        /\ (eret # "nil") <=> (\E i \in 1..Len(ops) : st[i] = "failed")
        /\ (eret = "nil") <=> (\A i \in 1..Len(ops) : st[i] = "succeeded")

\* a batch returned an error with one operation failed and another succeeded
C12_Witness ==
    /\ ReturnedFromWait
    /\ eret = "operation errors"
    /\ \E i, j \in 1..Len(ops) : st[i] = "failed" /\ st[j] = "succeeded"

Pending(i) == i <= Len(ops) /\ st[i] = "pending"

C14_DirectoryFirst ==
    /\ \A i \in 1..Len(ops) : st[i] # "pending" => OutputDir \in dirs
    /\ mkdirFails =>
          /\ \A i \in 1..Len(ops) : st[i] = "pending" /\ runs[i] = 0
          /\ OutputDir \notin dirs
          /\ (epc = "returned" /\ Len(ops) > 0) =>
                eret = "failed to create output directory"

\* Exec returned the directory error on a batch of operations, none started
C14_Witness ==
    /\ mkdirFails
    /\ Len(ops) > 0
    /\ epc = "returned"
    /\ eret = "failed to create output directory"
    /\ \A i \in 1..Len(ops) : st[i] = "pending"

\* C15: Exec on an empty batch returns success and has no effect on the file
\* system: the output directory is not created and no file is read, created
\* or written.
C15_EmptyBatchNoEffect ==
    Len(ops) = 0 =>
        /\ files = SourceFiles
        /\ dirs = SourceDirs
        /\ epc \in {"entry", "returned"}
        /\ epc = "returned" => eret = "nil"

\* Exec returned nil on the empty batch and there is no output directory
C15_Witness ==
    /\ Len(ops) = 0
    /\ epc = "returned"
    /\ eret = "nil"
    /\ OutputDir \notin dirs

\* C16: a Pick of an existing, readable source succeeds and leaves in the
\* output directory a file under the operation's own filename with the bytes
\* of the source, for every filename the directory listing produces (names
\* with a sub-directory component included); the source is unchanged.
C16_PickCopiesSource ==
    ReturnedFromWait =>
        \A i \in 1..Len(ops) :
            (IsPick(ops[i]) /\ ~SourceMissing(ops[i])) =>
                /\ st[i] = "succeeded"
                /\ SavePath(ops[i].Pick) \in DOMAIN files
                /\ files[SavePath(ops[i].Pick)] = SourceFiles[SourceOf(ops[i])]
                /\ files[SourceOf(ops[i])] = SourceFiles[SourceOf(ops[i])]

\* the operation's codec call has returned its bytes
Encoded(i) == IsCrop(ops[i]) /\ st[i] \in {"create", "write", "succeeded"}

\* two crop operations on the same source whose rectangles are equal after
\* rounding to 2 decimals
SameRoundedCrop(a, b) ==
    /\ IsCrop(a) /\ IsCrop(b)
    /\ a.Crop.Filename = b.Crop.Filename
    /\ SameAfterRounding(a.Crop.Crop, b.Crop.Crop)

\* C17: two crop operations on the same source with rectangles equal after
\* rounding to 2 decimals write to the same output path, leave exactly one
\* output file, and both write equivalent bytes.
C17_EqualRoundedSameBytes ==
    \A i, j \in 1..Len(ops) :
        (i # j /\ SameRoundedCrop(ops[i], ops[j])) =>
            /\ CroppedPath(ops[i].Crop) = CroppedPath(ops[j].Crop)
            /\ (Encoded(i) /\ Encoded(j)) => wbuf[i] = wbuf[j]
            /\ (ReturnedFromWait /\ st[i] = "succeeded" /\ st[j] = "succeeded") =>
                  /\ files[CroppedPath(ops[i].Crop)] = wbuf[i]
                  /\ files[CroppedPath(ops[j].Crop)] = wbuf[j]

\* two operations that are the same logical crop (same source file, same
\* rectangle at the 2 decimals of the identifier) or the same logical pick
SameLogical(a, b) ==
    \/ SameRoundedCrop(a, b)
    \/ IsPick(a) /\ IsPick(b) /\ a.Pick.Filename = b.Pick.Filename

\* C18: within a batch two different operations target the same output path
\* only if they are the same logical crop or the same logical pick;
\* operations on different source files, and a crop and a pick, address
\* different output paths (seen on the operations that wrote their output).
C18_DisjointOutputs ==
    \A i, j \in 1..Len(ops) :
        (i # j /\ HasVariant(ops[i]) /\ HasVariant(ops[j])
             /\ st[i] = "succeeded" /\ st[j] = "succeeded"
             /\ ~SameLogical(ops[i], ops[j])) =>
            OutputOf(ops[i]) # OutputOf(ops[j])

\* C19: once the ctx passed to Exec is cancelled during a batch, no operation
\* still Pending is started, while the Running ones are not interrupted:
\* they go on to Succeeded or to a failure of their own.
C19_CancelStopsScheduling ==
    [][cancelled =>
          \A i \in 1..Len(ops) :
              /\ st[i] = "pending" => st'[i] = "pending"
              /\ oerr'[i] # "context canceled"]_vars

\* the files that exist now and did not before Exec
Created == DOMAIN files \ DOMAIN SourceFiles

\* the last component of a file name
LastComponent(name) == LET p == SplitPath(name) IN p[Len(p)]

\* the output of a successful crop operation: written where the claim says,
\* under an identifier of n characters, and nothing is written elsewhere
CropOutputNamed(n) ==
    ReturnedFromWait =>
        /\ \A i \in 1..Len(ops) :
              (IsCrop(ops[i]) /\ st[i] = "succeeded") =>
                  LET o == ops[i].Crop
                      name == LastComponent(o.Filename) \o "-" \o ID(o.Crop) \o ".jpg"
                  IN  /\ OutputDir \o <<name>> \in Created
                      /\ IDLength(o.Crop) = n
        /\ Created = {OutputOf(ops[i]) :
                         i \in {j \in 1..Len(ops) : HasVariant(ops[j]) /\ st[j] = "succeeded"}}

\* C20 as stated: a successful Crop on file F writes exactly one file, named
\* base(F) + "-" + identifier + ".jpg", the identifier being 16 lowercase
\* hexadecimal characters.
C20_SixteenHexName == CropOutputNamed(16)

\* C20, amended: a successful Crop on file F writes exactly one file, named
\* base(F) + "-" + identifier + ".jpg", the identifier being the 32 lowercase
\* hexadecimal characters of the MD5 digest of the rectangle's text.
C20_CropOutputName == CropOutputNamed(32)

\* a crop succeeded and Exec returned with its output in place
C20_Witness ==
    /\ ReturnedFromWait
    /\ \E i \in 1..Len(ops) :
          /\ IsCrop(ops[i])
          /\ st[i] = "succeeded"
          /\ CroppedPath(ops[i].Crop) \in Created

\* C21: an Operation with neither variant populated has no effect on the
\* file system and counts as a success: it never ends Failed, a batch made
\* only of such operations creates no file and makes Exec return nil, and a
\* batch whose other operations all succeeded returns nil.
C21_NoVariantIsNoOp ==
    /\ \A i \in 1..Len(ops) : ~HasVariant(ops[i]) => st[i] # "failed" /\ oerr[i] = ""
    /\ (\A i \in 1..Len(ops) : ~HasVariant(ops[i])) => files = SourceFiles
    /\ (/\ ReturnedFromWait
        /\ \A i \in 1..Len(ops) : HasVariant(ops[i]) => st[i] = "succeeded")
          => eret = "nil"

\* Exec returned nil on a batch of a successful pick and an operation with
\* neither variant
C21_Witness ==
    /\ ReturnedFromWait
    /\ eret = "nil"
    /\ \E i, j \in 1..Len(ops) :
          /\ ~HasVariant(ops[i]) /\ st[i] = "succeeded"
          /\ IsPick(ops[j]) /\ st[j] = "succeeded"

(***************************************************************************)
(* ImagingCropper.Crop run on one image and one rectangle (SpecCodec)      *)
(*                                                                         *)
(* The fields of the rectangle are fractions in units of 1/10000 and the   *)
(* products with the image size are exact; magnitudes for which int() of   *)
(* the product would leave the range of int are not among the inputs.      *)
(***************************************************************************)

\* the images decoded, and bytes that are no image
CodecSources == {Image("photo", 1200, 800), Image("thumb", 7, 5), EmptyFile}

\* offsets and sizes inside the unit square, outside it, negative, and
\* smaller than a pixel
CodecOffsets == {-5000, -5, 0, 1000, 3333, 9999, 10000, 12000}
CodecSizes == {-1000, 0, 5, 5000, 6667, 10000, 20000}

CodecCrops == [X : CodecOffsets, Y : CodecOffsets, Width : CodecSizes, Height : CodecSizes]

\* the call of Cropper.Crop
CropCall ==
    /\ cpc = "call"
    /\ cres' = Crop(csrc, creq)
    /\ cpc' = "done"
    /\ UNCHANGED <<csrc, creq>>

InitCodec ==
    /\ csrc \in CodecSources
    /\ creq \in CodecCrops
    /\ cres = [err |-> "", out |-> EmptyFile]
    /\ cpc = "call"
    /\ ScanIdle
    /\ CropIdle
    /\ OpIdle
    /\ ExecIdle
    /\ WalkIdle
    /\ ServeIdle

NextCodec ==
    \/ CropCall /\ UNCHANGED <<scanVars, cropVars, opVars, execVars, walkVars, serveVars>>

SpecCodec == InitCodec /\ [][NextCodec]_vars

(***************************************************************************)
(* Claims about ImagingCropper.Crop (SpecCodec)                            *)
(***************************************************************************)

\* the size of the image in csrc
SrcW == csrc.r[3]
SrcH == csrc.r[4]

\* floor(frac * dim) and the product with its fraction dropped towards zero
FloorPx(frac, dim) == (frac * dim) \div 10000
TowardZeroPx(frac, dim) ==
    IF frac >= 0 THEN FloorPx(frac, dim) ELSE 0 - FloorPx(0 - frac, dim)

\* the requested pixel rectangle under a conversion px, as <<x0, y0, x1, y1>>,
\* and its pixel width and height
ReqW(px(_, _)) == px(creq.Width, SrcW)
ReqH(px(_, _)) == px(creq.Height, SrcH)
ReqRect(px(_, _)) ==
    <<px(creq.X, SrcW), px(creq.Y, SrcH),
      px(creq.X, SrcW) + ReqW(px), px(creq.Y, SrcH) + ReqH(px)>>

\* the part of a rectangle inside the image
Clipped(q) ==
    <<IF q[1] < 0 THEN 0 ELSE q[1], IF q[2] < 0 THEN 0 ELSE q[2],
      IF q[3] > SrcW THEN SrcW ELSE q[3], IF q[4] > SrcH THEN SrcH ELSE q[4]>>

NonEmpty(q) == q[1] < q[3] /\ q[2] < q[4]

\* what the claim says of a finished call on a decodable image, for a
\* conversion px of fraction to pixel: the call fails and writes nothing
\* exactly when the requested width or height is <= 0 or nothing of the
\* request is inside the image, and otherwise crops to the request clipped
\* to the image, a non-empty rectangle inside [0,W] x [0,H]
CropsToIntersection(px(_, _)) ==
    (cpc = "done" /\ csrc # EmptyFile) =>
        LET q == Clipped(ReqRect(px))
            refused == ReqW(px) <= 0 \/ ReqH(px) <= 0 \/ ~NonEmpty(q)
        IN  /\ refused <=> cres.err # ""
            /\ cres.err # "" => cres.out = EmptyFile
            /\ cres.err = "" =>
                  /\ cres.out.r = q
                  /\ NonEmpty(cres.out.r)
                  /\ 0 <= cres.out.r[1] /\ cres.out.r[3] <= SrcW
                  /\ 0 <= cres.out.r[2] /\ cres.out.r[4] <= SrcH

\* C22 as stated: ImagingCropper.Crop either fails or crops to the
\* intersection of the requested pixel rectangle (floor(x*W), floor(y*H),
\* floor(w*W), floor(h*H)) with the image bounds, for any rectangle; it fails
\* when the requested width or height is <= 0 or the intersection is empty,
\* and then writes nothing.
C22_FloorIntersection == CropsToIntersection(FloorPx)

\* C22, amended: the same with each product x*W, y*H, w*W, h*H converted by
\* dropping its fraction towards zero (which is floor for the fields that
\* are >= 0, and one more than floor for a negative product that is no whole
\* number); bytes that do not decode fail too and write nothing.
C22_TruncatedIntersection ==
    /\ CropsToIntersection(TowardZeroPx)
    /\ (cpc = "done" /\ csrc = EmptyFile) => cres.err # "" /\ cres.out = EmptyFile

\* a call that clipped: the request reached over the right and bottom edges
\* and the crop ends at them
C22_Witness ==
    /\ cpc = "done"
    /\ cres.err = ""
    /\ creq.X > 0 /\ creq.X + creq.Width > 10000
    /\ creq.Y > 0 /\ creq.Y + creq.Height > 10000
    /\ cres.out.r[3] = SrcW
    /\ cres.out.r[4] = SrcH

\* the rectangle asked for lies in the unit square
InUnitSquare ==
    /\ creq.X >= 0 /\ creq.Y >= 0 /\ creq.Width >= 0 /\ creq.Height >= 0
    /\ creq.X + creq.Width <= 10000
    /\ creq.Y + creq.Height <= 10000

\* a number of pixels is within one pixel of frac * dim
WithinOnePixel(n, frac, dim) ==
    /\ n * 10000 - frac * dim < 10000
    /\ frac * dim - n * 10000 < 10000

\* C23: for a rectangle with all fields in [0,1], x+w <= 1 and y+h <= 1 on an
\* image of W x H pixels, the cropped output has pixel dimensions within 1
\* pixel of (w*W, h*H) in each axis, and no clipping shrinks the request: the
\* output is the requested pixel rectangle itself.  (The call produces an
\* output unless w*W or h*H is less than one pixel.)
C23_InBoundsKeepsSize ==
    (cpc = "done" /\ csrc # EmptyFile /\ InUnitSquare) =>
        /\ cres.err = "" =>
              LET outW == cres.out.r[3] - cres.out.r[1]
                  outH == cres.out.r[4] - cres.out.r[2]
              IN  /\ WithinOnePixel(outW, creq.Width, SrcW)
                  /\ WithinOnePixel(outH, creq.Height, SrcH)
                  /\ outW = ReqW(FloorPx)
                  /\ outH = ReqH(FloorPx)
                  /\ cres.out.r = ReqRect(FloorPx)
        /\ cres.err # "" =>
              creq.Width * SrcW < 10000 \/ creq.Height * SrcH < 10000

\* x=0.1, y=0.1, w=0.5, h=0.5 on 1200 x 800 gave 600 x 400
C23_Witness ==
    /\ cpc = "done"
    /\ csrc = Image("photo", 1200, 800)
    /\ creq = [X |-> 1000, Y |-> 1000, Width |-> 5000, Height |-> 5000]
    /\ cres.err = ""
    /\ cres.out.r = <<120, 80, 720, 480>>

(***************************************************************************)
(* walkImages (SpecWalk): the files found by filepath.WalkDir, then the    *)
(* dimension loop, which runs readJPEGDimensions on each of them           *)
(***************************************************************************)

\* the most image files under the root
MaxFiles == 2

\* the bytes of the files: a JPEG with a table segment and a fill byte before
\* its frame header, a file that is no JPEG, an empty file, and a JPEG cut
\* right after the length of its frame header
WalkStreams ==
    {<<255, 216>> \o Seg(196, 4, 3) \o <<255>> \o Seg(192, 7, 1),
     <<0, 216>>, <<>>, <<255, 216>> \o Seg(192, 2, 1)}

WalkNames == <<"a.jpg", "sub/b.jpeg", "c.JPG">>

\* the directory trees walked: every file has a .jpg or .jpeg extension
WalkDirs ==
    UNION {{[i \in 1..n |-> [Name |-> WalkNames[i], Bytes |-> b[i]]] :
               b \in [1..n -> WalkStreams]} : n \in 0..MaxFiles}

ZeroImageInfo == [Width |-> 0, Height |-> 0]

\* filepath.WalkDir: every image file is appended with its relative path
\* and no dimensions
WalkDir ==
    /\ wpc = "walk"
    /\ wfiles' = [i \in 1..Len(wdir) |-> [Name |-> wdir[i].Name, Image |-> ZeroImageInfo]]
    /\ wi' = 1
    /\ wpc' = "dims"
    /\ UNCHANGED <<wdir, wseen, wret, scanVars>>

\* for i := range files: the call of readJPEGDimensions on files[i]
ReadDimensions ==
    /\ wpc = "dims"
    /\ wi <= Len(wfiles)
    /\ file' = wdir[wi].Bytes
    /\ pos' = 0
    /\ buf' = <<0, 0>>
    /\ pc' = "soi"
    /\ res' = NoResult
    /\ reads' = 0
    /\ wpc' = "scan"
    /\ UNCHANGED <<wdir, wfiles, wseen, wi, wret>>

\* readJPEGDimensions is back: an error is logged and the file keeps its
\* zero dimensions, a result is stored, a panic unwinds walkImages
StoreDimensions ==
    /\ wpc = "scan"
    /\ pc = "done"
    /\ wseen' = Append(wseen, res)
    /\ IF res.kind = "panic"
       THEN /\ wpc' = "panicked"
            /\ UNCHANGED <<wfiles, wi>>
       ELSE /\ wfiles' = IF res.kind = "ok"
                         THEN [wfiles EXCEPT ![wi].Image =
                                  [Width |-> res.width, Height |-> res.height]]
                         ELSE wfiles
            /\ wi' = wi + 1
            /\ wpc' = "dims"
    /\ pc' = "idle"
    /\ UNCHANGED <<wdir, wret, file, pos, buf, res, reads>>

\* return Directory{...}, nil
WalkReturn ==
    /\ wpc = "dims"
    /\ wi > Len(wfiles)
    /\ wpc' = "returned"
    /\ wret' = "ok"
    /\ UNCHANGED <<wdir, wfiles, wseen, wi, scanVars>>

InitWalk ==
    /\ wdir \in WalkDirs
    /\ wfiles = <<>>
    /\ wseen = <<>>
    /\ wi = 0
    /\ wpc = "walk"
    /\ wret = "none"
    /\ ScanIdle
    /\ CropIdle
    /\ OpIdle
    /\ ExecIdle
    /\ CodecIdle
    /\ ServeIdle

NextWalk ==
    \/ WalkDir /\ UNCHANGED <<cropVars, opVars, execVars, codecVars, serveVars>>
    \/ ReadDimensions /\ UNCHANGED <<cropVars, opVars, execVars, codecVars, serveVars>>
    \/ StoreDimensions /\ UNCHANGED <<cropVars, opVars, execVars, codecVars, serveVars>>
    \/ WalkReturn /\ UNCHANGED <<cropVars, opVars, execVars, codecVars, serveVars>>
    \/ ReadSOI /\ UNCHANGED <<cropVars, opVars, execVars, codecVars, walkVars, serveVars>>
    \/ ReadMarker /\ UNCHANGED <<cropVars, opVars, execVars, codecVars, walkVars, serveVars>>
    \/ SkipPadding /\ UNCHANGED <<cropVars, opVars, execVars, codecVars, walkVars, serveVars>>
    \/ ReadSOFLength /\ UNCHANGED <<cropVars, opVars, execVars, codecVars, walkVars, serveVars>>
    \/ ReadSOFSegment /\ UNCHANGED <<cropVars, opVars, execVars, codecVars, walkVars, serveVars>>
    \/ ReadSegLength /\ UNCHANGED <<cropVars, opVars, execVars, codecVars, walkVars, serveVars>>
    \/ SkipSegment /\ UNCHANGED <<cropVars, opVars, execVars, codecVars, walkVars, serveVars>>

SpecWalk == InitWalk /\ [][NextWalk]_vars

\* the dimension loop is past file i
Measured(i) == i <= Len(wseen)

\* C24: a failure of readJPEGDimensions for one file is never fatal to
\* walkImages: the walk is not aborted, it returns successfully with every
\* file listed, a file whose extraction failed is listed with zero
\* dimensions, and every other file with exactly the dimensions
\* readJPEGDimensions returned for it.
C24_DimensionFailureNotFatal ==
    /\ wpc # "panicked"
    /\ wpc = "returned" =>
          /\ wret = "ok"
          /\ Len(wfiles) = Len(wdir)
          /\ \A i \in 1..Len(wdir) : Measured(i) /\ wfiles[i].Name = wdir[i].Name
    /\ \A i \in 1..Len(wfiles) :
          /\ (Measured(i) /\ wseen[i].kind = "ok") =>
                wfiles[i].Image = [Width |-> wseen[i].width, Height |-> wseen[i].height]
          /\ wfiles[i].Image # ZeroImageInfo => (Measured(i) /\ wseen[i].kind = "ok")

\* C25: on every finite byte stream the scanner ends after finitely many
\* reads, at most one per byte of the stream and a last one that meets the
\* end, and it ends in a return of dimensions or of an error, also for
\* segments that declare length 0, 1 or 2.
C25_TerminatesInReturn ==
    /\ reads <= Len(file) + 1
    /\ (pc = "done" => res.kind \in {"ok", "error"})

(***************************************************************************)
(* Exec on names that are not plain file names of the root: a directory,   *)
(* a name that climbs out of the root, and two images of different size    *)
(* whose crops share an output name (SpecExecPaths)                        *)
(***************************************************************************)

\* the longest batch of SpecExecPaths
MaxPathBatch == 2

PathOperations ==
    {PickOf("sub"), PickOf("gone.jpg"), PickOf("../photo.jpg"),
     CropOf("gone.jpg", RectA), CropOf("photo.jpg", RectFlat),
     CropOf("photo.jpg", RectA), CropOf("sub/photo.jpg", RectA),
     EmptyOperation}

PathBatches == UNION {[1..n -> PathOperations] : n \in 0..MaxPathBatch}

\* the files before Exec: the two images of the root, the one in the
\* sub-directory smaller, and an image next to the root directory
PathFiles ==
    [q \in {BaseDir \o <<"photo.jpg">>, BaseDir \o <<"sub", "photo.jpg">>,
            <<"photo.jpg">>} |->
        IF q = BaseDir \o <<"photo.jpg">> THEN Image("photo", 1200, 800)
        ELSE IF q = <<"photo.jpg">> THEN Image("above", 1200, 800)
        ELSE Image("sub/photo", 600, 400)]

InitExecPaths ==
    /\ ops \in PathBatches
    /\ st = [i \in 1..Len(ops) |-> "pending"]
    /\ runs = [i \in 1..Len(ops) |-> 0]
    /\ oerr = [i \in 1..Len(ops) |-> ""]
    /\ wbuf = [i \in 1..Len(ops) |-> EmptyFile]
    /\ files = PathFiles
    /\ dirs = SourceDirs
    /\ mkdirFails \in BOOLEAN
    /\ epc = "entry"
    /\ nexti = 0
    /\ errs = {}
    /\ eret = "none"
    /\ cancelled = FALSE
    /\ ScanIdle
    /\ CropIdle
    /\ OpIdle
    /\ CodecIdle
    /\ WalkIdle
    /\ ServeIdle

SpecExecPaths == InitExecPaths /\ [][NextExec]_vars

\* every operation of the batch that writes path p has failed
OnlyFailedWrite(p) ==
    \A i \in 1..Len(ops) :
        (HasVariant(ops[i]) /\ OutputOf(ops[i]) = p) => st[i] = "failed"

\* path p is as it was before Exec: absent, or with the bytes it had
AsBefore(p) ==
    /\ p \in DOMAIN files <=> p \in DOMAIN PathFiles
    /\ p \in DOMAIN files => files[p] = PathFiles[p]

\* C26: when Exec has returned, every path that only failed operations of
\* the batch write is as it was before the call: a failed operation has
\* created no file and truncated none.
C26_FailedLeavesFilesUnchanged ==
    ReturnedFromWait =>
        \A p \in DOMAIN files \cup DOMAIN PathFiles :
            OnlyFailedWrite(p) => AsBefore(p)

\* path p lies inside directory d
Inside(d, p) == Len(p) > Len(d) /\ SubSeq(p, 1, Len(d)) = d

\* Exec has created path p or replaced its bytes
Touched(p) == p \notin DOMAIN PathFiles \/ files[p] # PathFiles[p]

\* C27: every file that Exec has created or truncated lies inside the output
\* directory, whatever file names the operations of the batch carry; no file
\* of the base directory or outside both roots is created or overwritten.
C27_WritesOnlyInsideOutput ==
    \A p \in DOMAIN files : Touched(p) => Inside(OutputDir, p)

\* two operations of the batch that both succeeded in writing one path
WroteSamePath(i, j) ==
    /\ i # j
    /\ HasVariant(ops[i]) /\ HasVariant(ops[j])
    /\ st[i] = "succeeded" /\ st[j] = "succeeded"
    /\ OutputOf(ops[i]) = OutputOf(ops[j])

\* the bytes an operation writes: the codec's output, or the source's bytes
CompleteOutput(i) ==
    IF IsCrop(ops[i]) THEN wbuf[i] ELSE PathFiles[SourceOf(ops[i])]

\* C28: when two operations of a batch have written the same output path and
\* Exec has returned, the file holds the complete output of one of the two,
\* under every interleaving of their create and write steps, and never a
\* mixture of bytes of both.
C28_LastWriterWins ==
    ReturnedFromWait =>
        \A i, j \in 1..Len(ops) :
            WroteSamePath(i, j) =>
                files[OutputOf(ops[i])] \in {CompleteOutput(i), CompleteOutput(j)}

(***************************************************************************)
(* serveCmd.Run and WebApp.Run: the /api/save handler, whose OnSave runs    *)
(* Exec and in once mode cancels the context; Ctrl+C; the /api/shutdown     *)
(* handler; and the goroutine that waits for either and shuts the server    *)
(* down (SpecServe).  One save request is handled at a time.                *)
(***************************************************************************)

\* the saves a run of the server handles at most
MaxSaves == 2

\* the calls of WebApp.Shutdown a run of the server sees at most
MaxShutdownCalls == 2

\* the longest batch a save request carries
MaxServeBatch == 2

ServeOperations ==
    {PickOf("photo.jpg"), PickOf("gone.jpg"), CropOf("photo.jpg", RectA),
     EmptyOperation}

ServeBatches == UNION {[1..n -> ServeOperations] : n \in 0..MaxServeBatch}

\* the server has stopped accepting requests
Closed == gpc = "done"

\* POST /api/save: the body parses and OnSave(request.Operations) begins:
\* printJSONL with --json, otherwise executor.Exec(ctx, ops) is entered
SaveHandler ==
    /\ spc = "idle"
    /\ ~Closed
    /\ saves < MaxSaves
    /\ IF cmd.JSON
       THEN /\ spc' = "printed"
            /\ UNCHANGED <<ops, st, runs, oerr, wbuf, epc, nexti, errs, eret,
                           mkdirFails>>
       ELSE /\ spc' = "exec"
            /\ ops' \in ServeBatches
            /\ st' = [i \in 1..Len(ops') |-> "pending"]
            /\ runs' = [i \in 1..Len(ops') |-> 0]
            /\ oerr' = [i \in 1..Len(ops') |-> ""]
            /\ wbuf' = [i \in 1..Len(ops') |-> EmptyFile]
            /\ mkdirFails' \in (IF OutputDir \in dirs THEN {FALSE} ELSE BOOLEAN)
            /\ epc' = "entry"
            /\ nexti' = 0
            /\ errs' = {}
            /\ eret' = "none"
    /\ UNCHANGED <<files, dirs, cancelled, cmd, saves, calls, shutdownOnce,
                   shutdownCh, gpc, befores, shutdowns>>

\* an OnSave that does not wait for Exec before it cancels and returns
SaveFinish_ExecNotAwaited ==
    /\ spc \in {"exec", "printed"}
    /\ cancelled' = (cancelled \/ cmd.Once)
    /\ spc' = "idle"
    /\ saves' = saves + 1
    /\ UNCHANGED <<ops, st, runs, oerr, wbuf, files, dirs, epc, nexti, errs,
                   eret, mkdirFails, cmd, calls, shutdownOnce, shutdownCh, gpc,
                   befores, shutdowns>>

\* OnSave after Exec has returned (its error is logged) or the operations
\* are printed: if cmd.Once { cancel() }; then the handler sends its status
SaveFinish ==
    /\ \/ spc = "exec" /\ epc = "returned"
       \/ spc = "printed"
    /\ cancelled' = (cancelled \/ cmd.Once)
    /\ spc' = "idle"
    /\ saves' = saves + 1
    /\ UNCHANGED <<ops, st, runs, oerr, wbuf, files, dirs, epc, nexti, errs,
                   eret, mkdirFails, cmd, calls, shutdownOnce, shutdownCh, gpc,
                   befores, shutdowns>>

\* Ctrl+C: signal.NotifyContext cancels the context
Interrupt ==
    /\ ~cancelled
    /\ cancelled' = TRUE
    /\ UNCHANGED <<ops, st, runs, oerr, wbuf, files, dirs, epc, nexti, errs,
                   eret, mkdirFails, serveVars>>

\* a Shutdown that closes the channel on every call
Shutdown_WithoutOnce ==
    /\ calls < MaxShutdownCalls
    /\ calls' = calls + 1
    /\ shutdownCh' = IF shutdownCh = "open" THEN "closed" ELSE "closed twice"
    /\ UNCHANGED <<execVars, cmd, spc, saves, shutdownOnce, gpc, befores, shutdowns>>

\* POST /api/shutdown: a.Shutdown(), shutdownOnce.Do(close(shutdownCh));
\* closing a closed channel would panic
Shutdown ==
    /\ calls < MaxShutdownCalls
    /\ calls' = calls + 1
    /\ IF shutdownOnce
       THEN UNCHANGED <<shutdownOnce, shutdownCh>>
       ELSE /\ shutdownOnce' = TRUE
            /\ shutdownCh' = IF shutdownCh = "open" THEN "closed" ELSE "closed twice"
    /\ UNCHANGED <<execVars, cmd, spc, saves, gpc, befores, shutdowns>>

\* the goroutine of WebApp.Run: select { case <-ctx.Done(): case <-a.shutdownCh: }
Select ==
    /\ gpc = "select"
    /\ cancelled \/ shutdownCh # "open"
    /\ gpc' = "before"
    /\ UNCHANGED <<execVars, cmd, spc, saves, calls, shutdownOnce, shutdownCh,
                   befores, shutdowns>>

\* the goroutine of WebApp.Run: a.config.OnBeforeShutdown()
BeforeShutdown ==
    /\ gpc = "before"
    /\ befores' = befores + 1
    /\ gpc' = "shutdown"
    /\ UNCHANGED <<execVars, cmd, spc, saves, calls, shutdownOnce, shutdownCh,
                   shutdowns>>

\* the goroutine of WebApp.Run: webapp.ShutdownWithTimeout(5 * time.Second)
ShutdownWithTimeout ==
    /\ gpc = "shutdown"
    /\ shutdowns' = shutdowns + 1
    /\ gpc' = "done"
    /\ UNCHANGED <<execVars, cmd, spc, saves, calls, shutdownOnce, shutdownCh,
                   befores>>

\* serveCmd.Run has built the executor and the WebApp, and WebApp.Run has
\* started its goroutine and is listening
InitServe ==
    /\ cmd \in [Once : BOOLEAN, JSON : BOOLEAN]
    /\ spc = "idle"
    /\ saves = 0
    /\ calls = 0
    /\ shutdownOnce = FALSE
    /\ shutdownCh = "open"
    /\ gpc = "select"
    /\ befores = 0
    /\ shutdowns = 0
    /\ ops = <<>>
    /\ st = <<>>
    /\ runs = <<>>
    /\ oerr = <<>>
    /\ wbuf = <<>>
    /\ files = SourceFiles
    /\ dirs = SourceDirs
    /\ epc = "idle"
    /\ nexti = 0
    /\ errs = {}
    /\ eret = "none"
    /\ mkdirFails = FALSE
    /\ cancelled = FALSE
    /\ ScanIdle
    /\ CropIdle
    /\ OpIdle
    /\ CodecIdle
    /\ WalkIdle

NextServe ==
    \/ SaveHandler /\ UNCHANGED <<scanVars, cropVars, opVars, codecVars, walkVars>>
    \/ SaveFinish /\ UNCHANGED <<scanVars, cropVars, opVars, codecVars, walkVars>>
    \/ Interrupt /\ UNCHANGED <<scanVars, cropVars, opVars, codecVars, walkVars>>
    \/ Shutdown /\ UNCHANGED <<scanVars, cropVars, opVars, codecVars, walkVars>>
    \/ Select /\ UNCHANGED <<scanVars, cropVars, opVars, codecVars, walkVars>>
    \/ BeforeShutdown /\ UNCHANGED <<scanVars, cropVars, opVars, codecVars, walkVars>>
    \/ ShutdownWithTimeout /\ UNCHANGED <<scanVars, cropVars, opVars, codecVars, walkVars>>
    \/ ExecEnter /\ UNCHANGED <<scanVars, cropVars, opVars, codecVars, walkVars, serveVars>>
    \/ MkdirAll /\ UNCHANGED <<scanVars, cropVars, opVars, codecVars, walkVars, serveVars>>
    \/ Go /\ UNCHANGED <<scanVars, cropVars, opVars, codecVars, walkVars, serveVars>>
    \/ Wait /\ UNCHANGED <<scanVars, cropVars, opVars, codecVars, walkVars, serveVars>>
    \/ (\E i \in 1..Len(ops) : CropOpen(i)) /\ UNCHANGED <<scanVars, cropVars, opVars, codecVars, walkVars, serveVars>>
    \/ (\E i \in 1..Len(ops) : CropCreate(i)) /\ UNCHANGED <<scanVars, cropVars, opVars, codecVars, walkVars, serveVars>>
    \/ (\E i \in 1..Len(ops) : CropWrite(i)) /\ UNCHANGED <<scanVars, cropVars, opVars, codecVars, walkVars, serveVars>>
    \/ (\E i \in 1..Len(ops) : PickOpen(i)) /\ UNCHANGED <<scanVars, cropVars, opVars, codecVars, walkVars, serveVars>>
    \/ (\E i \in 1..Len(ops) : PickCreate(i)) /\ UNCHANGED <<scanVars, cropVars, opVars, codecVars, walkVars, serveVars>>
    \/ (\E i \in 1..Len(ops) : PickCopy(i)) /\ UNCHANGED <<scanVars, cropVars, opVars, codecVars, walkVars, serveVars>>
    \/ (\E i \in 1..Len(ops) : NoVariant(i)) /\ UNCHANGED <<scanVars, cropVars, opVars, codecVars, walkVars, serveVars>>

SpecServe == InitServe /\ [][NextServe]_vars

(***************************************************************************)
(* Claims about the server (SpecServe)                                     *)
(***************************************************************************)

\* a save has gone through OnSave in once mode and no later one has begun:
\* the batch in the executor is the batch of that save
SavedOnce == cmd.Once /\ saves >= 1 /\ spc = "idle"

C30_ShutdownAtMostOnce ==
    /\ shutdowns <= 1
    /\ befores <= 1
    /\ shutdownCh \in {"open", "closed"}
    /\ shutdownCh = "closed" <=> calls >= 1
    /\ gpc # "select" => (cancelled \/ shutdownCh = "closed")

\* the context was cancelled, Shutdown was called more than once, and the
\* server has been shut down
C30_Witness ==
    /\ cancelled
    /\ calls >= 2
    /\ gpc = "done"
    /\ shutdowns = 1
    /\ befores = 1

====
